---- MODULE Spec2Model ----
(***************************************************************************)
(* Model of the BrowserClaw MCP server (src/mcp-server/server.py): the     *)
(* bridge client, the TTL tool cache and the two adapter handlers          *)
(* list_tools and call_tool.  A handler that awaits the bridge is split at *)
(* its await: the ...Start action runs the code up to the request, the     *)
(* ...Complete action runs the rest of the handler on the bridge's answer, *)
(* so that handlers of different invocations interleave as they do under   *)
(* asyncio.  Time is the wall clock read by time.time(), in whole units.   *)
(* The handlers call ToolCache.get and ToolCache.set only; set and         *)
(* invalidate are also operations of the cache object in their own right   *)
(* (CacheSet, Invalidate), as is BridgeClient.close (Close).  Spec is the  *)
(* server under its default configuration; BridgeSpec is the bridge client *)
(* under every configured token, with BridgeClient.health among the        *)
(* operations that use the connection handle.                              *)
(***************************************************************************)
EXTENDS Integers, Sequences, FiniteSets, Bags, TLC

\* ------------------------------------------------------------------ bounds
MaxTime == 3
\* how many handler invocations may be awaiting the bridge at once
NumInvocations == 2

\* the largest configured tool_cache_ttl_seconds
MaxTTL == 1
TTLs == 0..MaxTTL

\* ------------------------------------------------------- raw bridge tools
\* A raw tool is the JSON object of the bridge: a dict whose keys are a
\* subset of name, description, inputSchema.
SchemaUrl == [type |-> "object", properties |-> <<"url">>]
RawNav == [name |-> "navigate", description |-> "Open a page", inputSchema |-> SchemaUrl]
RawClick == [name |-> "click"]
RawNoName == [description |-> "nameless"]

\* Python's None, and a list, as the two shapes a cache payload can take.
None == [k |-> "none", v |-> <<>>]
List(s) == [k |-> "list", v |-> s]

Catalogs == { <<>>, <<RawClick>>, <<RawNav, RawClick>>, <<RawClick, RawNoName>> }

\* What the "tools" field of a bridge answer can hold: a list of raw
\* tools, or JSON null.
ToolsFieldValues == {List(c) : c \in Catalogs} \cup {None}

\* ---------------------------------------------------------- _to_mcp_tools
DefaultSchema == [type |-> "object", properties |-> <<>>]

\* mutant of ToolOf: the defaults are used whether or not the field is there
ToolOfDefaultsOnly(t) ==
  [name |-> t.name, description |-> "", inputSchema |-> DefaultSchema]

ToolOf(t) ==
  [name |-> t.name,
   description |-> IF "description" \in DOMAIN t THEN t.description ELSE "",
   inputSchema |-> IF "inputSchema" \in DOMAIN t THEN t.inputSchema ELSE DefaultSchema]

\* t["name"] raises KeyError on a dict without the key; iterating None
\* raises TypeError.
Translatable(raw) ==
  /\ raw.k = "list"
  /\ \A i \in 1..Len(raw.v) : "name" \in DOMAIN raw.v[i]

ToMcpTools(raw) ==
  IF Translatable(raw)
  THEN [ok |-> TRUE, val |-> [i \in 1..Len(raw.v) |-> ToolOf(raw.v[i])]]
  ELSE [ok |-> FALSE, val |-> <<>>]

\* ------------------------------------------------------------------- JSON
\* A JSON text is a sequence of tokens; a JSON value is null, a number, a
\* string or an object (a Python dict: its keys in insertion order).
Tok(c, s, n) == [c |-> c, s |-> s, n |-> n]
P(s) == Tok("punct", s, 0)
StrTok(s) == Tok("str", s, 0)
NumTok(n) == Tok("num", "", n)
NullTok == Tok("null", "", 0)
Sp == Tok("ws", " ", 1)
Nl(n) == Tok("ws", "\n", n)
Junk(s) == Tok("junk", s, 0)
Text(s) == Tok("text", s, 0)

JNull == [t |-> "null", n |-> 0, s |-> "", m |-> <<>>]
JNum(n) == [t |-> "num", n |-> n, s |-> "", m |-> <<>>]
JStr(s) == [t |-> "str", n |-> 0, s |-> s, m |-> <<>>]
JObj(m) == [t |-> "obj", n |-> 0, s |-> "", m |-> m]
KV(k, v) == [key |-> k, val |-> v]

ParseFail == [ok |-> FALSE, val |-> JNull, next |-> 0]

RECURSIVE SkipWs(_, _)
SkipWs(toks, i) ==
  IF i <= Len(toks) /\ toks[i].c = "ws" THEN SkipWs(toks, i + 1) ELSE i

\* dict[k] = v: a repeated key keeps its first position and takes the last value.
DictSet(m, k, v) ==
  IF \E i \in 1..Len(m) : m[i].key = k
  THEN [i \in 1..Len(m) |-> IF m[i].key = k THEN KV(k, v) ELSE m[i]]
  ELSE Append(m, KV(k, v))

RECURSIVE ParseValueAt(_, _), ParseMemberAt(_, _, _)
ParseValueAt(toks, i0) ==
  LET i == SkipWs(toks, i0) IN
    IF i > Len(toks) THEN ParseFail
    ELSE IF toks[i].c = "null" THEN [ok |-> TRUE, val |-> JNull, next |-> i + 1]
    ELSE IF toks[i].c = "num" THEN [ok |-> TRUE, val |-> JNum(toks[i].n), next |-> i + 1]
    ELSE IF toks[i].c = "str" THEN [ok |-> TRUE, val |-> JStr(toks[i].s), next |-> i + 1]
    ELSE IF toks[i] = P("{")
    THEN LET j == SkipWs(toks, i + 1) IN
           IF j <= Len(toks) /\ toks[j] = P("}")
           THEN [ok |-> TRUE, val |-> JObj(<<>>), next |-> j + 1]
           ELSE ParseMemberAt(toks, j, <<>>)
    ELSE ParseFail

\* one "key": value member at i0, then "," and the next member, or "}"
ParseMemberAt(toks, i0, acc) ==
  LET i == SkipWs(toks, i0)
      c == SkipWs(toks, i + 1)
  IN
    IF i > Len(toks) \/ c > Len(toks) THEN ParseFail
    ELSE IF toks[i].c # "str" \/ toks[c] # P(":") THEN ParseFail
    ELSE LET v == ParseValueAt(toks, c + 1)
             e == SkipWs(toks, v.next)
         IN
           IF ~v.ok \/ e > Len(toks) THEN ParseFail
           ELSE IF toks[e] = P("}")
           THEN [ok |-> TRUE, val |-> JObj(DictSet(acc, toks[i].s, v.val)), next |-> e + 1]
           ELSE IF toks[e] = P(",")
           THEN ParseMemberAt(toks, e + 1, DictSet(acc, toks[i].s, v.val))
           ELSE ParseFail

\* json.loads / Response.json(): the whole text is one value.
Parse(toks) ==
  LET r == ParseValueAt(toks, 1) IN
    IF r.ok /\ SkipWs(toks, r.next) > Len(toks)
    THEN [ok |-> TRUE, val |-> r.val]
    ELSE [ok |-> FALSE, val |-> JNull]

\* json.dumps(value, indent=2, ensure_ascii=False)
RECURSIVE Dumps(_, _), DumpMembers(_, _, _)
Dumps(v, level) ==
  IF v.t = "null" THEN <<NullTok>>
  ELSE IF v.t = "num" THEN <<NumTok(v.n)>>
  ELSE IF v.t = "str" THEN <<StrTok(v.s)>>
  ELSE IF Len(v.m) = 0 THEN <<P("{"), P("}")>>
  ELSE <<P("{")>> \o DumpMembers(v.m, 1, level + 1) \o <<Nl(2 * level), P("}")>>

DumpMembers(m, i, level) ==
  IF i > Len(m) THEN <<>>
  ELSE (IF i > 1 THEN <<P(",")>> ELSE <<>>)
       \o <<Nl(2 * level), StrTok(m[i].key), P(":"), Sp>>
       \o Dumps(m[i].val, level)
       \o DumpMembers(m, i + 1, level)

\* the request body httpx builds from json={...}: json.dumps on one line
RECURSIVE DumpsLine(_), DumpLineMembers(_, _)
DumpsLine(v) ==
  IF v.t = "null" THEN <<NullTok>>
  ELSE IF v.t = "num" THEN <<NumTok(v.n)>>
  ELSE IF v.t = "str" THEN <<StrTok(v.s)>>
  ELSE <<P("{")>> \o DumpLineMembers(v.m, 1) \o <<P("}")>>

DumpLineMembers(m, i) ==
  IF i > Len(m) THEN <<>>
  ELSE (IF i > 1 THEN <<P(","), Sp>> ELSE <<>>)
       \o <<StrTok(m[i].key), P(":"), Sp>>
       \o DumpsLine(m[i].val)
       \o DumpLineMembers(m, i + 1)

\* ------------------------------------------------------- bridge responses
\* An HTTP exchange as the handlers see it: the transport outcome ("ok",
\* "connect" for a refused connection, "timeout"), the status code, and the
\* body.  For GET /tools the body is kept parsed, in data: data.k is
\* "notjson" (resp.json() raises) or "dict", with or without a "tools"
\* field (any other JSON value has no .get and raises as well).  For POST /tool_call the body is
\* the JSON text.
NoData == [k |-> "notjson", has |-> FALSE, tools |-> None]
Resp(net, status, data, body) ==
  [net |-> net, status |-> status, data |-> data, body |-> body]
NoResp == Resp("none", 0, NoData, <<>>)

ListResponses ==
  { Resp("connect", 0, NoData, <<>>),
    Resp("ok", 503, NoData, <<>>),
    Resp("ok", 200, NoData, <<>>),
    Resp("ok", 200, [k |-> "dict", has |-> FALSE, tools |-> None], <<>>) }
  \cup { Resp("ok", 200, [k |-> "dict", has |-> TRUE, tools |-> x], <<>>) :
           x \in ToolsFieldValues }

\* {"error":"no such tool","detail":{ "n" : 1 },"error":"denied"} and a line
\* break: spaced another way than json.dumps does, with a repeated key
BodyJson ==
  <<P("{"), StrTok("error"), P(":"), StrTok("no such tool"), P(","),
    StrTok("detail"), P(":"), P("{"), Sp, StrTok("n"), Sp, P(":"), Sp, NumTok(1), Sp, P("}"),
    P(","), StrTok("error"), P(":"), StrTok("denied"), P("}"), Nl(0)>>
\* an HTML error page
BodyHtml == <<Junk("<html>Bad Gateway</html>")>>

\* the status codes of the answers the model draws; sent is the request's
\* own body, the answer of a bridge that echoes
Statuses == {200, 500}
CallBodies(sent) == {BodyJson, BodyHtml, sent}
CallResponses(sent) ==
  { Resp("connect", 0, NoData, <<>>), Resp("timeout", 0, NoData, <<>>) }
  \cup { Resp("ok", st, NoData, b) : st \in Statuses, b \in CallBodies(sent) }

Is2xx(status) == status >= 200 /\ status < 300

\* BridgeClient.list_tools on an answer: raises, or returns data.get("tools", []).
BridgeListTools(resp) ==
  IF resp.net # "ok" THEN [ok |-> FALSE, val |-> None]
  ELSE IF ~Is2xx(resp.status) THEN [ok |-> FALSE, val |-> None]
  ELSE IF resp.data.k # "dict" THEN [ok |-> FALSE, val |-> None]
  ELSE IF resp.data.has THEN [ok |-> TRUE, val |-> resp.data.tools]
  ELSE [ok |-> TRUE, val |-> List(<<>>)]

\* what GET /health can be answered with: no connection, 503, 200 with a
\* page that is no JSON, 200 with a JSON body
HealthResponses ==
  { Resp("connect", 0, NoData, <<>>),
    Resp("ok", 503, NoData, BodyHtml),
    Resp("ok", 200, NoData, BodyHtml),
    Resp("ok", 200, NoData, BodyJson) }

\* BridgeClient.health on an answer: raises, or returns resp.json()
BridgeHealth(resp) ==
  IF resp.net # "ok" THEN [ok |-> FALSE, val |-> JNull]
  ELSE IF ~Is2xx(resp.status) THEN [ok |-> FALSE, val |-> JNull]
  ELSE Parse(resp.body)

\* str(e) of the exception the transport raises
NetMessage(net) ==
  IF net = "connect" THEN "All connection attempts failed" ELSE "timed out"

\* mutant of BridgeCallTool: resp.raise_for_status() before resp.json()
BridgeCallToolChecked(resp) ==
  IF resp.net # "ok"
  THEN [kind |-> "error", val |-> JNull, msg |-> NetMessage(resp.net)]
  ELSE IF ~Is2xx(resp.status)
  THEN [kind |-> "status_error", val |-> JNull, msg |-> ""]
  ELSE LET r == Parse(resp.body) IN
         IF r.ok THEN [kind |-> "value", val |-> r.val, msg |-> ""]
         ELSE [kind |-> "error", val |-> JNull, msg |-> "Expecting value"]

\* BridgeClient.call_tool on an answer: resp.json() whatever the status.
\* kind is "value", "status_error" (httpx.HTTPStatusError) or "error" (any
\* other exception).
BridgeCallTool(resp) ==
  IF resp.net # "ok"
  THEN [kind |-> "error", val |-> JNull, msg |-> NetMessage(resp.net)]
  ELSE LET r == Parse(resp.body) IN
         IF r.ok THEN [kind |-> "value", val |-> r.val, msg |-> ""]
         ELSE [kind |-> "error", val |-> JNull, msg |-> "Expecting value"]

\* the body of POST /tool_call
RequestValue(name, args) == JObj(<<KV("tool", JStr(name)), KV("args", args)>>)
EncodeRequest(name, args) == DumpsLine(RequestValue(name, args))

\* ------------------------------------------------------------- call_tool
TextContent(text) == [type |-> "text", text |-> text]

\* mutant of CallToolResult: only httpx.HTTPStatusError is caught
CallToolResultNoCatchAll(resp) ==
  LET r == BridgeCallTool(resp) IN
    IF r.kind = "value"
    THEN [kind |-> "return", content |-> <<TextContent(Dumps(r.val, 0))>>]
    ELSE IF r.kind = "status_error"
    THEN [kind |-> "return",
          content |-> <<TextContent(<<Text("Bridge error: "), NumTok(resp.status), Sp>>
                                    \o resp.body)>>]
    ELSE [kind |-> "raise", content |-> <<>>]

\* the handler on the bridge's answer: what it returns, or that it raises
CallToolResult(resp) ==
  LET r == BridgeCallTool(resp) IN
    IF r.kind = "value"
    THEN [kind |-> "return", content |-> <<TextContent(Dumps(r.val, 0))>>]
    ELSE IF r.kind = "status_error"
    THEN [kind |-> "return",
          content |-> <<TextContent(<<Text("Bridge error: "), NumTok(resp.status), Sp>>
                                    \o resp.body)>>]
    ELSE [kind |-> "return", content |-> <<TextContent(<<Text("Error: "), Text(r.msg)>>)>>]

\* the calls the channel makes: a tool name and an argument mapping
Req(name, args) == [name |-> name, args |-> args, body |-> EncodeRequest(name, args)]
NoReq == [name |-> "", args |-> JNull, body |-> <<>>]
CallInputs == { <<"click", JObj(<<KV("selector", JStr("#go")), KV("count", JNum(2))>>)>> }

\* ------------------------------------------------------------------ state
VARIABLES
  now,         \* time.time()
  ttl,         \* ToolCache.ttl
  tools,       \* ToolCache._tools
  fetched_at,  \* ToolCache._fetched_at
  client,      \* BridgeClient._client: "none", "open" or "closed"
  waiting,     \* the invocations awaiting the bridge's answer, a bag of
               \* [op |-> "list" or "call", req |-> the tool call sent,
               \*  overtaken |-> ToolCache.set ran since list_tools began]
  last,        \* what the step just taken made a handler do
  setAt,       \* history: the clock value of the last ToolCache.set, -1 if none
  setBy,       \* history: who called it: "fetch" (list_tools), "api", "none"
  invalidated, \* history: invalidate() was called after the last set
  token,       \* BridgeClient.token
  headers,     \* the default headers of the handle BridgeClient._client
  live,        \* history: the handles created and not closed
  lastBridge   \* what the step just taken did with the handle

vars == <<now, ttl, tools, fetched_at, client, waiting, last, setAt, setBy, invalidated,
          token, headers, live, lastBridge>>

\* ------------------------------------------------------------- ToolCache
\* mutant of Expired: the boundary counts as expired
ExpiredAtBoundary == (now - fetched_at) >= ttl

Expired == (now - fetched_at) > ttl

\* mutant of Get: the held catalog is returned without looking at its age
GetIgnoringAge == tools

Get == IF Expired THEN None ELSE tools

\* `if cache._tools:` is true of a non-empty list only.
Truthy(raw) == raw.k = "list" /\ Len(raw.v) > 0

\* ---------------------------------------------------------- BridgeClient
\* the bridge_token values configured: the default (empty) and a secret
Tokens == {"", "s3cret"}

\* mutant of Headers: the Authorization header is left out
HeadersWithoutAuth(tok) == {<<"Content-Type", "application/json">>}

\* the default headers _get_client gives a new handle
Headers(tok) ==
  {<<"Content-Type", "application/json">>}
    \cup (IF tok # "" THEN {<<"Authorization", "Bearer " \o tok>>} ELSE {})

\* mutant of NeedsClient: a handle is created for every request
NeedsClientAlways == TRUE

\* mutant of NeedsClient: a handle is created on first use only
NeedsClientFirstUse == client = "none"

\* `self._client is None or self._client.is_closed`
NeedsClient == client = "none" \/ client = "closed"

GetClient == IF NeedsClient THEN "open" ELSE client

\* what the step did with the handle.  op: "get" (_get_client ran) or
\* "close"; kind: "return" or "raise"; was: BridgeClient._client when the
\* step began; sent: the headers of the request sent on the handle.
BridgeEvent(op, kind, sent) == [op |-> op, kind |-> kind, was |-> client, sent |-> sent]
NoBridgeEvent == [op |-> "none", kind |-> "none", was |-> "none", sent |-> {}]

\* _get_client() followed by a request on the handle it returns
UseClient ==
  /\ client' = GetClient
  /\ headers' = IF NeedsClient THEN Headers(token) ELSE headers
  /\ live' = IF NeedsClient THEN live + 1 ELSE live
  /\ lastBridge' = BridgeEvent("get", "return", headers')

\* a step that does not touch the bridge client
NoUseClient ==
  /\ lastBridge' = NoBridgeEvent
  /\ UNCHANGED <<client, headers, live>>

\* ------------------------------------------------------ handler outcomes
\* Fresh as the cache's contract defines it: a set happened, no invalidate
\* since, and the time since that set is within the TTL.
Fresh == setAt # -1 /\ ~invalidated /\ (now - setAt) <= ttl

\* op: "list" or "call" when a handler finished, "list_sent" when list_tools
\* sent GET /tools; kind: "return" or "raise"; tools / content: the value
\* returned; reqs: the bridge requests the invocation made; path: "hit",
\* "fetch", "fallback" or "call"; held: ToolCache._tools when the step
\* began, heldBy: who stored it; resp: the bridge's answer; req: the tool
\* call; fresh: the cache was Fresh when the step began; overtaken:
\* ToolCache.set ran between the invocation's begin and this step.
OutcomeBy(op, kind, ts, content, reqs, path, held, by, resp, rq, fresh, overtaken) ==
  [op |-> op, kind |-> kind, tools |-> ts, content |-> content, reqs |-> reqs,
   path |-> path, held |-> held, heldBy |-> by, resp |-> resp, req |-> rq,
   fresh |-> fresh, overtaken |-> overtaken]
Outcome(op, kind, ts, content, reqs, path, resp, rq, overtaken) ==
  OutcomeBy(op, kind, ts, content, reqs, path, tools, setBy, resp, rq, Fresh, overtaken)
NoOutcome ==
  OutcomeBy("none", "none", <<>>, <<>>, 0, "none", None, "none", NoResp, NoReq, FALSE, FALSE)

\* an invocation awaiting the bridge
Waiting(op, rq, overtaken) ==
  [op |-> op, req |-> rq, overtaken |-> overtaken, headers |-> headers', reqs |-> 1]
CanStart == BagCardinality(waiting) < NumInvocations

\* the bag b once ToolCache.set has run: every list_tools invocation in it
\* is overtaken
Overtake(b) ==
  LET mark(w) == IF w.op = "list" THEN [w EXCEPT !.overtaken = TRUE] ELSE w
      unmark(w) == [w EXCEPT !.overtaken = FALSE]
  IN [w \in {mark(x) : x \in BagToSet(b)} |->
        IF w.op = "list" THEN CopiesIn(w, b) + CopiesIn(unmark(w), b) ELSE CopiesIn(w, b)]

InitState ==
  /\ now = 1
  /\ ttl \in TTLs
  /\ tools = List(<<>>)
  /\ fetched_at = 0
  /\ client = "none"
  /\ headers = {}
  /\ live = 0
  /\ lastBridge = NoBridgeEvent
  /\ waiting = EmptyBag
  /\ last = NoOutcome
  /\ setAt = -1
  /\ setBy = "none"
  /\ invalidated = FALSE

\* the server as configured by default: no bridge token
Init == InitState /\ token = ""

\* the server with any of the bridge tokens configured
InitBridge == InitState /\ token \in Tokens

\* time passes
Tick ==
  /\ now < MaxTime
  /\ now' = now + 1
  /\ last' = NoOutcome
  /\ NoUseClient
  /\ UNCHANGED <<ttl, tools, fetched_at, waiting, setAt, setBy, invalidated, token>>

\* ToolCache.set(catalog), called by a holder of the cache other than
\* list_tools
CacheSet(catalog) ==
  /\ tools' = List(catalog)
  /\ fetched_at' = now
  /\ setAt' = now
  /\ setBy' = "api"
  /\ invalidated' = FALSE
  /\ waiting' = Overtake(waiting)
  /\ last' = NoOutcome
  /\ NoUseClient
  /\ UNCHANGED <<now, ttl, token>>

\* mutant of Invalidate: the held catalog is discarded with the timestamp
InvalidateDiscarding ==
  /\ fetched_at' = 0
  /\ tools' = List(<<>>)
  /\ invalidated' = TRUE
  /\ last' = NoOutcome
  /\ NoUseClient
  /\ UNCHANGED <<now, ttl, waiting, setAt, setBy, token>>

\* ToolCache.invalidate()
Invalidate ==
  /\ fetched_at' = 0
  /\ invalidated' = TRUE
  /\ last' = NoOutcome
  /\ NoUseClient
  /\ UNCHANGED <<now, ttl, tools, waiting, setAt, setBy, token>>

\* mutant of Close: aclose() is called on whatever _client holds
CloseUnguarded ==
  /\ client' = IF client = "open" THEN "closed" ELSE client
  /\ live' = IF client = "open" THEN live - 1 ELSE live
  /\ lastBridge' = BridgeEvent("close", IF client = "none" THEN "raise" ELSE "return", {})
  /\ last' = NoOutcome
  /\ UNCHANGED <<now, ttl, tools, fetched_at, waiting, setAt, setBy, invalidated,
                 token, headers>>

\* BridgeClient.close(): aclose() runs on an open handle only
Close ==
  /\ client' = IF client = "open" THEN "closed" ELSE client
  /\ live' = IF client = "open" THEN live - 1 ELSE live
  /\ lastBridge' = BridgeEvent("close", "return", {})
  /\ last' = NoOutcome
  /\ UNCHANGED <<now, ttl, tools, fetched_at, waiting, setAt, setBy, invalidated,
                 token, headers>>

\* list_tools on a cache hit: what `return _to_mcp_tools(cached)` gives
ListToolsHit(cached) ==
  LET r == ToMcpTools(cached) IN
    Outcome("list", IF r.ok THEN "return" ELSE "raise", r.val, <<>>, 0, "hit",
            NoResp, NoReq, FALSE)

\* list_tools up to its first await: the cache hit returns (or raises) at
\* once, the miss sends GET /tools.
ListToolsStart ==
  /\ CanStart
  /\ LET cached == Get IN
       IF cached # None
       THEN /\ last' = ListToolsHit(cached)
            /\ NoUseClient
            /\ UNCHANGED waiting
       ELSE /\ UseClient
            /\ waiting' = waiting (+) SetToBag({Waiting("list", NoReq, FALSE)})
            /\ last' = Outcome("list_sent", "none", <<>>, <<>>, 1, "none", NoResp, NoReq,
                               FALSE)
  /\ UNCHANGED <<now, ttl, tools, fetched_at, setAt, setBy, invalidated, token>>

\* list_tools from the bridge's answer on.  stored: cache.set ran (it runs
\* before len() and the translation); the result is that of the try block
\* if nothing in it raised, else that of the except block.
ListToolsFetched(resp, overtaken) ==
  LET fetched == BridgeListTools(resp)
      stored == fetched.ok
      lenOk == fetched.ok /\ fetched.val.k = "list"
      tr == ToMcpTools(fetched.val)
      heldAfter == IF stored THEN fetched.val ELSE tools
      fb == ToMcpTools(heldAfter)
  IN
    [stored |-> stored,
     raw |-> fetched.val,
     out |-> IF lenOk /\ tr.ok
             THEN Outcome("list", "return", tr.val, <<>>, 1, "fetch", resp, NoReq, overtaken)
             ELSE IF Truthy(heldAfter)
             THEN Outcome("list", IF fb.ok THEN "return" ELSE "raise", fb.val, <<>>, 1,
                          "fallback", resp, NoReq, overtaken)
             ELSE Outcome("list", "return", <<>>, <<>>, 1, "fallback", resp, NoReq,
                          overtaken)]

\* mutant of ListToolsComplete: a request that raised is sent once more
ListToolsCompleteRetrying(w, resp) ==
  /\ w.op = "list"
  /\ BagIn(w, waiting)
  /\ LET f == ListToolsFetched(resp, w.overtaken)
         rest == waiting (-) SetToBag({w})
     IN
       IF ~f.stored /\ w.reqs < 2
       THEN /\ waiting' = rest (+) SetToBag({[w EXCEPT !.reqs = w.reqs + 1]})
            /\ last' = NoOutcome
            /\ UNCHANGED <<tools, fetched_at, setAt, setBy, invalidated>>
       ELSE /\ IF f.stored
               THEN /\ tools' = f.raw
                    /\ fetched_at' = now
                    /\ setAt' = now
                    /\ setBy' = "fetch"
                    /\ invalidated' = FALSE
                    /\ waiting' = Overtake(rest)
               ELSE /\ waiting' = rest
                    /\ UNCHANGED <<tools, fetched_at, setAt, setBy, invalidated>>
            /\ last' = [f.out EXCEPT !.reqs = w.reqs]
  /\ NoUseClient
  /\ UNCHANGED <<now, ttl, token>>

ListToolsComplete(w, resp) ==
  /\ w.op = "list"
  /\ BagIn(w, waiting)
  /\ LET f == ListToolsFetched(resp, w.overtaken)
         rest == waiting (-) SetToBag({w})
     IN
       /\ IF f.stored
          THEN /\ tools' = f.raw
               /\ fetched_at' = now
               /\ setAt' = now
               /\ setBy' = "fetch"
               /\ invalidated' = FALSE
               /\ waiting' = Overtake(rest)
          ELSE /\ waiting' = rest
               /\ UNCHANGED <<tools, fetched_at, setAt, setBy, invalidated>>
       /\ last' = [f.out EXCEPT !.reqs = w.reqs]
  /\ NoUseClient
  /\ UNCHANGED <<now, ttl, token>>

\* call_tool up to its await: POST /tool_call is sent
CallToolStart(name, args) ==
  /\ CanStart
  /\ UseClient
  /\ waiting' = waiting (+) SetToBag({Waiting("call", Req(name, args), FALSE)})
  /\ last' = NoOutcome
  /\ UNCHANGED <<now, ttl, tools, fetched_at, setAt, setBy, invalidated, token>>

\* mutant of CallToolComplete: an answer that is no JSON invalidates the
\* tool cache
CallToolCompleteInvalidating(w, resp) ==
  /\ w.op = "call"
  /\ BagIn(w, waiting)
  /\ waiting' = waiting (-) SetToBag({w})
  /\ LET r == CallToolResult(resp) IN
       last' = Outcome("call", r.kind, <<>>, r.content, w.reqs, "call", resp, w.req, FALSE)
  /\ fetched_at' = IF BridgeCallTool(resp).kind = "value" THEN fetched_at ELSE 0
  /\ NoUseClient
  /\ UNCHANGED <<now, ttl, tools, setAt, setBy, invalidated, token>>

\* call_tool from the bridge's answer to its return
CallToolComplete(w, resp) ==
  /\ w.op = "call"
  /\ BagIn(w, waiting)
  /\ waiting' = waiting (-) SetToBag({w})
  /\ LET r == CallToolResult(resp) IN
       last' = Outcome("call", r.kind, <<>>, r.content, w.reqs, "call", resp, w.req, FALSE)
  /\ NoUseClient
  /\ UNCHANGED <<now, ttl, tools, fetched_at, setAt, setBy, invalidated, token>>

\* BridgeClient.health() up to its await: GET /health is sent
HealthStart ==
  /\ CanStart
  /\ UseClient
  /\ waiting' = waiting (+) SetToBag({Waiting("health", NoReq, FALSE)})
  /\ last' = NoOutcome
  /\ UNCHANGED <<now, ttl, tools, fetched_at, setAt, setBy, invalidated, token>>

\* BridgeClient.health() from the bridge's answer to its return
HealthComplete(w, resp) ==
  /\ w.op = "health"
  /\ BagIn(w, waiting)
  /\ waiting' = waiting (-) SetToBag({w})
  /\ LET r == BridgeHealth(resp) IN
       last' = Outcome("health", IF r.ok THEN "return" ELSE "raise", <<>>,
                       IF r.ok THEN <<r.val>> ELSE <<>>, w.reqs, "health", resp, NoReq,
                       FALSE)
  /\ NoUseClient
  /\ UNCHANGED <<now, ttl, tools, fetched_at, setAt, setBy, invalidated, token>>

Next ==
  \/ Tick
  \/ Invalidate
  \/ \E c \in Catalogs : CacheSet(c)
  \/ Close
  \/ ListToolsStart
  \/ \E w \in BagToSet(waiting) : \E resp \in ListResponses : ListToolsComplete(w, resp)
  \/ \E inp \in CallInputs : CallToolStart(inp[1], inp[2])
  \/ \E w \in BagToSet(waiting) : \E resp \in CallResponses(w.req.body) :
       CallToolComplete(w, resp)

Spec == Init /\ [][Next]_vars

\* the bridge client under every token, with health() among its callers
NextBridge ==
  \/ Close
  \/ HealthStart
  \/ \E w \in BagToSet(waiting) : \E resp \in HealthResponses : HealthComplete(w, resp)
  \/ ListToolsStart
  \/ \E w \in BagToSet(waiting) : \E resp \in ListResponses : ListToolsComplete(w, resp)
  \/ \E inp \in CallInputs : CallToolStart(inp[1], inp[2])
  \/ \E w \in BagToSet(waiting) : \E resp \in CallResponses(w.req.body) :
       CallToolComplete(w, resp)

BridgeSpec == InitBridge /\ [][NextBridge]_vars

\* ================================================================ claims
\* the bridge request of a list_tools invocation failed: a network error, a
\* non-2xx status, or a malformed answer (a body that is no JSON object, a
\* "tools" field that is no list, a tool without a name)
ListFailed(resp) ==
  LET f == BridgeListTools(resp) IN ~f.ok \/ ~Translatable(f.val)

\* C1: list_tools never raises: every list_tools invocation, whatever the
\* cache state and the bridge's answer, returns a sequence of tools.
C1_ListToolsNeverRaises ==
  last.op = "list" => last.kind = "return"

\* C2: call_tool never raises and returns exactly one text content item,
\* for every answer of the bridge and every transport failure.
C2_CallToolOneTextItem ==
  last.op = "call" =>
    /\ last.kind = "return"
    /\ Len(last.content) = 1
    /\ last.content[1].type = "text"

\* a call_tool invocation answered by 500 with an HTML page has returned
C2_Witness ==
  /\ last.op = "call"
  /\ last.resp.net = "ok" /\ last.resp.status = 500 /\ last.resp.body = BodyHtml
  /\ last.kind = "return"

\* C3: when a non-empty catalog C is held from an earlier successful fetch,
\* a list_tools invocation begins after C has expired or been invalidated
\* (it misses, and no set runs until the bridge answers) and its bridge
\* request fails (network error, non-2xx status, malformed answer), the
\* invocation returns exactly the translation of C.
C3_FallbackReturnsHeld ==
  ( /\ last.op = "list"
    /\ last.reqs = 1
    /\ ListFailed(last.resp)
    /\ ~last.overtaken
    /\ last.heldBy = "fetch"
    /\ Truthy(last.held) /\ Translatable(last.held) )
  => /\ last.kind = "return"
     /\ last.tools = ToMcpTools(last.held).val

\* C4: with e the time since the last set (and no invalidate since), get()
\* returns the stored catalog if e <= ttl and nothing if e > ttl, and not
\* the other way round (a stored JSON null is itself nothing), whether or
\* not a stale catalog is held.
C4_GetIffWithinTTL ==
  (setAt # -1 /\ ~invalidated) =>
    LET e == now - setAt IN
      /\ e <= ttl => Get = tools
      /\ e > ttl => Get = None
      /\ tools # None => /\ (Get = tools) <=> (e <= ttl)
                         /\ (Get = None) <=> (e > ttl)

\* a catalog is held past its TTL and get() returns nothing
C4_Witness ==
  /\ setAt # -1 /\ ~invalidated
  /\ now - setAt > ttl
  /\ Truthy(tools)
  /\ Get = None

\* C5, as claimed: at the boundary e = ttl the cache counts as expired and
\* get() returns nothing.
C5_BoundaryExpired ==
  (setAt # -1 /\ ~invalidated /\ now - setAt = ttl) => Get = None

\* C5, amended: at the boundary e = ttl the cache still counts as Fresh and
\* get() returns the stored catalog; it is expired only once e > ttl.
C5_BoundaryFresh ==
  (setAt # -1 /\ ~invalidated /\ now - setAt = ttl) =>
    /\ ~Expired
    /\ Get = tools

\* a catalog set one TTL ago, with a TTL that is not zero, is returned
C5_Witness ==
  /\ setAt # -1 /\ ~invalidated
  /\ ttl > 0 /\ now - setAt = ttl
  /\ Truthy(tools)
  /\ Get = tools

\* C6: after invalidate(), with no set since, get() returns nothing for
\* every TTL and every clock value, however recently set was called.
C6_InvalidateForcesMiss ==
  (setAt # -1 /\ invalidated /\ Truthy(tools)) => Get = None

\* C7: invalidate() and the passage of time leave the held catalog as it
\* is, so that a list_tools invocation whose bridge request fails afterwards
\* falls back to the catalog the last set stored.
C7_StalenessKeepsCatalog ==
  /\ [][(Invalidate \/ Tick) => tools' = tools]_vars
  /\ []( ( /\ last.op = "list"
           /\ last.path = "fallback"
           /\ ~BridgeListTools(last.resp).ok
           /\ Translatable(last.held) )
         => /\ tools = last.held
            /\ last.kind = "return"
            /\ last.tools = ToMcpTools(last.held).val )

\* a catalog invalidated after its set has been returned by the fallback of
\* an invocation that began after the invalidate
C7_Witness ==
  /\ invalidated
  /\ last.op = "list" /\ last.path = "fallback"
  /\ last.resp.net = "connect"
  /\ ~last.overtaken
  /\ Truthy(last.held)
  /\ last.tools = ToMcpTools(last.held).val
  /\ tools = last.held

\* s occurs in t as a run of consecutive elements ending t
EndsWith(t, s) ==
  /\ Len(s) <= Len(t)
  /\ \A i \in 1..Len(s) : t[Len(t) - Len(s) + i] = s[i]

\* C8: when the bridge answers a tool call with a 4xx/5xx status, the text
\* item returned starts with the bridge-error prefix and contains the
\* status code and the raw body of the answer.
C8_StatusErrorText ==
  (last.op = "call" /\ last.resp.net = "ok" /\ last.resp.status >= 400) =>
    /\ last.kind = "return"
    /\ Len(last.content) = 1
    /\ LET text == last.content[1].text IN
         /\ Len(text) >= 2
         /\ text[1] = Text("Bridge error: ")
         /\ text[2] = NumTok(last.resp.status)
         /\ EndsWith(text, last.resp.body)

\* what the bridge receives is exactly {"tool": name, "args": args}
RequestPassedThrough ==
  Parse(last.req.body) = [ok |-> TRUE, val |-> RequestValue(last.req.name, last.req.args)]

\* C9, as claimed: for every answer of the bridge, whatever its status, the
\* request is passed through and the text item returned parses back to the
\* body of the answer.
C9_PassThroughAnyBody ==
  (last.op = "call" /\ last.resp.net = "ok") =>
    /\ RequestPassedThrough
    /\ last.kind = "return" /\ Len(last.content) = 1
    /\ Parse(last.content[1].text).ok
    /\ Parse(last.content[1].text) = Parse(last.resp.body)

\* C9, amended: for every answer of the bridge whose body is valid JSON,
\* whatever its status, the request is passed through and the text item
\* returned parses back to the value the body parses to.
C9_PassThroughJsonBody ==
  (last.op = "call" /\ last.resp.net = "ok" /\ Parse(last.resp.body).ok) =>
    /\ RequestPassedThrough
    /\ last.kind = "return" /\ Len(last.content) = 1
    /\ Parse(last.content[1].text).ok
    /\ Parse(last.content[1].text) = Parse(last.resp.body)

\* a bridge that echoes the request with status 500: the text returned is
\* not the body sent, and parses to the request
C9_Witness ==
  /\ last.op = "call"
  /\ last.resp.net = "ok" /\ last.resp.status = 500
  /\ last.resp.body = last.req.body
  /\ last.req.args # JObj(<<>>)
  /\ last.kind = "return" /\ Len(last.content) = 1
  /\ last.content[1].text # last.resp.body
  /\ Parse(last.content[1].text).val = RequestValue(last.req.name, last.req.args)

\* C10: a list_tools invocation that begins while the cache is Fresh with
\* a catalog (a list) that a list_tools fetch stored makes no bridge request
\* and returns the translation of the cached catalog.
C10_FreshHitNoRequest ==
  /\ (last.op = "list_sent" /\ last.heldBy = "fetch" /\ last.held.k = "list") => ~last.fresh
  /\ (last.op = "list" /\ last.path = "hit" /\ last.heldBy = "fetch" /\ last.fresh) =>
       /\ last.kind = "return"
       /\ last.tools = ToMcpTools(last.held).val
       /\ last.reqs = 0

\* the values of the Authorization header among the headers hs
AuthOf(hs) == {h[2] : h \in {x \in hs : x[1] = "Authorization"}}

\* C11: every bridge request (health, list_tools, call_tool) carries
\* Authorization: Bearer <token> when the configured token is not empty and
\* no Authorization header when it is empty, also on a handle created
\* after a close.
C11_AuthorizationHeader ==
  /\ \A w \in BagToSet(waiting) :
       AuthOf(w.headers) = IF token = "" THEN {} ELSE {"Bearer " \o token}
  /\ lastBridge.op = "get" =>
       AuthOf(lastBridge.sent) = IF token = "" THEN {} ELSE {"Bearer " \o token}

\* with a token configured, health() has found the handle closed, created
\* a new one and sent its request with the header
C11_Witness ==
  /\ token = "s3cret"
  /\ lastBridge.op = "get" /\ lastBridge.was = "closed"
  /\ \E w \in BagToSet(waiting) :
       w.op = "health" /\ <<"Authorization", "Bearer s3cret">> \in w.headers
  /\ <<"Authorization", "Bearer s3cret">> \in lastBridge.sent

\* C12: close() raises nothing and leaves no live handle, whether no handle
\* was ever created, the handle is open or it is already closed; a close
\* that finds no open handle changes nothing.
C12_CloseIdempotent ==
  /\ [][Close => /\ client' # "open"
                 /\ live' = 0
                 /\ client # "open" =>
                      UNCHANGED <<client, headers, live, waiting, tools, fetched_at>>]_vars
  /\ [](lastBridge.op = "close" => lastBridge.kind = "return")

\* close() has run on a handle that an earlier close() had closed
C12_Witness ==
  /\ lastBridge.op = "close" /\ lastBridge.was = "closed"
  /\ lastBridge.kind = "return"
  /\ client = "closed" /\ live = 0

\* C13: the translation passes name through, uses "" for an absent
\* description and {"type": "object", "properties": {}} for an absent
\* inputSchema, passes present fields through unchanged and keeps the
\* order of the tools.
C13_TranslationDefaults ==
  (last.op = "list" /\ last.kind = "return" /\ last.path \in {"fetch", "hit"}) =>
    LET raw == IF last.path = "fetch" THEN BridgeListTools(last.resp).val.v
               ELSE last.held.v
    IN /\ Len(last.tools) = Len(raw)
       /\ \A i \in 1..Len(raw) :
            /\ last.tools[i].name = raw[i].name
            /\ last.tools[i].description =
                 IF "description" \in DOMAIN raw[i] THEN raw[i].description ELSE ""
            /\ last.tools[i].inputSchema =
                 IF "inputSchema" \in DOMAIN raw[i] THEN raw[i].inputSchema
                 ELSE [type |-> "object", properties |-> <<>>]

\* a fetched catalog of a tool with every field and a tool with a name only
\* has been translated, in that order
C13_Witness ==
  /\ last.op = "list" /\ last.kind = "return" /\ last.path = "fetch"
  /\ BridgeListTools(last.resp).val = List(<<RawNav, RawClick>>)
  /\ Len(last.tools) = 2
  /\ last.tools[1] = RawNav
  /\ last.tools[2].name = "click"
  /\ last.tools[2].description = ""
  /\ last.tools[2].inputSchema = [type |-> "object", properties |-> <<>>]

\* C14: a list_tools invocation whose bridge request fails (network error,
\* non-2xx status, or a malformed answer that cannot be translated) leaves
\* the cache's held catalog and its timestamp as they were.
C14_FailedRefreshKeepsCache ==
  [][(last'.op = "list" /\ last'.reqs = 1 /\ ListFailed(last'.resp))
       => (tools' = tools /\ fetched_at' = fetched_at)]_vars

\* C15: a cache on which set was never called is stale for every TTL and
\* every clock value: no list_tools invocation is served from it as a
\* cache hit.
C15_NeverSetIsStale ==
  setAt = -1 => ~(last.op = "list" /\ last.path = "hit")

\* C16: at most one handle is live (created and not closed) at any time,
\* under every interleaving of list_tools, call_tool, health and close, and
\* a live handle is the one BridgeClient._client refers to.
C16_OneLiveHandle ==
  /\ live <= 1
  /\ live = 1 <=> client = "open"

\* two requests await the bridge, the later one sent on a handle created
\* after a close, and one handle is live
C16_Witness ==
  /\ BagCardinality(waiting) >= 2
  /\ lastBridge.op = "get" /\ lastBridge.was = "closed"
  /\ client = "open" /\ live = 1

\* C18: a handle is created only on first use or when the previous one is
\* found closed; a bridge operation after close() creates a new handle and
\* proceeds on it; while a handle is open no operation replaces it.
C18_HandleLifecycle ==
  [][ /\ live' > live => (client \in {"none", "closed"} /\ client' = "open")
      /\ client = "open" => (live' <= live /\ headers' = headers)
      /\ lastBridge'.op = "get" =>
           /\ client' = "open"
           /\ BagCardinality(waiting') = BagCardinality(waiting) + 1
           /\ live' = IF client = "open" THEN live ELSE live + 1 ]_vars

\* call_tool has found the handle closed, created a new one and sent its
\* request
C18_Witness ==
  /\ lastBridge.op = "get" /\ lastBridge.was = "closed"
  /\ client = "open"
  /\ \E w \in BagToSet(waiting) : w.op = "call"
  /\ BagCardinality(waiting) = 1

\* C17: no retries: a list_tools invocation makes at most one bridge
\* request (none on a cache hit), a call_tool invocation exactly one, and an
\* invocation ends on the first answer to its request, failed or not.
C17_NoRetries ==
  /\ [](\A w \in BagToSet(waiting) : w.reqs = 1)
  /\ [](last.op = "list" => (last.reqs <= 1 /\ (last.reqs = 0 <=> last.path = "hit")))
  /\ [](last.op = "call" => last.reqs = 1)
  /\ [][(last'.op \in {"list", "call"} /\ last'.reqs >= 1)
        => BagCardinality(waiting') = BagCardinality(waiting) - 1]_vars

\* a list_tools invocation whose only request found no connection has
\* ended, and nothing awaits the bridge
C17_Witness ==
  /\ last.op = "list" /\ last.path = "fallback"
  /\ last.resp.net = "connect"
  /\ last.reqs = 1
  /\ waiting = EmptyBag

\* the step sent a POST /tool_call: one more call_tool request awaits the
\* bridge
CallSent ==
  \E w \in BagToSet(waiting') : w.op = "call" /\ CopiesIn(w, waiting') > CopiesIn(w, waiting)

\* C19: a call_tool invocation leaves the cache's held catalog and its
\* timestamp as they were, whether it succeeds or fails, and forwards the
\* tool name to the bridge whether or not the held catalog has the tool.
C19_CallToolLeavesCache ==
  /\ [][(last'.op = "call" \/ CallSent) => (tools' = tools /\ fetched_at' = fetched_at)]_vars
  /\ [][\A inp \in CallInputs : CallToolStart(inp[1], inp[2]) =>
          \E w \in BagToSet(waiting') :
            /\ w.op = "call" /\ w.req.name = inp[1]
            /\ Parse(w.req.body).val = RequestValue(inp[1], inp[2])
            /\ CopiesIn(w, waiting') = CopiesIn(w, waiting) + 1]_vars

\* a failed call of a tool that the fetched catalog held does not list has
\* returned, and the cache is as the fetch left it
C19_Witness ==
  /\ last.op = "call" /\ last.resp.net = "timeout"
  /\ last.req.name = "click"
  /\ setBy = "fetch" /\ tools = List(<<>>) /\ fetched_at = setAt
  /\ last.held = tools

\* C20: a list_tools invocation that begins while the cache is Stale (never
\* set, invalidated, or set longer ago than the TTL) makes its own bridge
\* fetch, also when other invocations overlap it; an invocation whose fetch
\* succeeds returns the translation of the catalog it fetched itself; and
\* on its completion the cache holds the raw result of that fetch with the
\* time of the completion.
C20_OverlappingFetches ==
  /\ (last.op = "list" /\ last.path = "hit") => last.fresh
  /\ (last.op = "list" /\ last.reqs = 1 /\ ~ListFailed(last.resp)) =>
       /\ last.kind = "return"
       /\ last.tools = ToMcpTools(BridgeListTools(last.resp).val).val
       /\ tools = BridgeListTools(last.resp).val
       /\ fetched_at = now

====
